---------------------------- MODULE Spec2Model ----------------------------
(***************************************************************************)
(* Console blackjack (src/blackjack.py): Hand scoring with ace             *)
(* re-valuation, the Deck card source, the BlackjackController turn        *)
(* sequence and the BlackjackView move prompt.                             *)
(*                                                                         *)
(* Spec     : one game, from the construction of the controller to its end *)
(* HandSpec : Hand.add_card alone, applied to arbitrary card sequences     *)
(***************************************************************************)
EXTENDS Integers, Sequences, FiniteSets, TLC

(***************************************************************************)
(* Bounds                                                                  *)
(***************************************************************************)
\* the card source supplies the first NumRanks ranks of RankOrder
NumRanks == 4
\* number of cards of each rank the card source holds
MaxCopies == 5
\* consecutive invalid inputs typed at one move prompt
MaxInvalid == 1
\* length of the card sequences HandSpec feeds to add_card
MaxHandLen == 4

(***************************************************************************)
(* Card                                                                    *)
(***************************************************************************)
\* Card.value as the deck service spells it
RankOrder ==
    << "ACE", "5", "10", "6", "KING", "2", "JACK", "QUEEN", "3", "4", "7", "8", "9" >>

AllRanks == { RankOrder[k] : k \in 1..Len(RankOrder) }

\* the ranks the card source of a game holds
DeckRanks ==
    { RankOrder[k] : k \in 1..(IF NumRanks < Len(RankOrder) THEN NumRanks ELSE Len(RankOrder)) }

NumericRanks == { "2", "3", "4", "5", "6", "7", "8", "9", "10" }

FaceRanks == { "JACK", "QUEEN", "KING" }

\* int(i.value) for the numeric ranks
int(v) ==
    CASE v = "2" -> 2 [] v = "3" -> 3 [] v = "4" -> 4 [] v = "5" -> 5
      [] v = "6" -> 6 [] v = "7" -> 7 [] v = "8" -> 8 [] v = "9" -> 9
      [] v = "10" -> 10

(***************************************************************************)
(* Hand                                                                    *)
(***************************************************************************)
Hand == [cards |-> << >>, score |-> 0]

\* what one card adds to new_score in the first loop of add_card
CardPointsNoTen(v) ==
    (IF v \in (NumericRanks \ { "10" }) THEN int(v) ELSE 0)
    + (IF v \in FaceRanks THEN 10 ELSE 0)
    + (IF v = "ACE" THEN 11 ELSE 0)

CardPoints(v) ==
    (IF v \in NumericRanks THEN int(v) ELSE 0)
    + (IF v \in FaceRanks THEN 10 ELSE 0)
    + (IF v = "ACE" THEN 11 ELSE 0)

\* new_score after the first loop over the first n cards
RECURSIVE FirstPass(_, _)
FirstPass(cards, n) ==
    IF n = 0 THEN 0 ELSE FirstPass(cards, n - 1) + CardPoints(cards[n])

\* has_aces after the first loop
HasAces(cards) == \E k \in 1..Len(cards) : cards[k] = "ACE"

\* the second loop of add_card, from card k on, with new_score = s
RECURSIVE AceLoop(_, _, _)
AceLoopAll(cards, k, s) ==
    IF k > Len(cards) THEN s
    ELSE AceLoop(cards, k + 1, IF cards[k] = "ACE" THEN s - 10 ELSE s)

AceLoopOnce(cards, k, s) ==
    IF k > Len(cards) THEN s
    ELSE IF cards[k] = "ACE" THEN s - 10 ELSE AceLoop(cards, k + 1, s)

AceLoopFirst(cards, k, s) ==
    IF k > Len(cards) THEN s
    ELSE IF cards[k] = "ACE" THEN s - 10 ELSE s

AceLoop(cards, k, s) ==
    IF k > Len(cards) THEN s
    ELSE LET s2 == IF cards[k] = "ACE" THEN s - 10 ELSE s
         IN  IF s2 <= 21 THEN s2 ELSE AceLoop(cards, k + 1, s2)

\* the score add_card stores for the card list
NewScore(cards) ==
    LET new_score == FirstPass(cards, Len(cards))
    IN  IF HasAces(cards) /\ new_score > 21 THEN AceLoop(cards, 1, new_score)
        ELSE new_score

add_card_front(hand, card) ==
    LET cards == << card >> \o hand.cards
    IN  [cards |-> cards, score |-> NewScore(cards)]

add_card(hand, card) ==
    LET cards == Append(hand.cards, card)
    IN  [cards |-> cards, score |-> NewScore(cards)]

(***************************************************************************)
(* State                                                                   *)
(***************************************************************************)
VARIABLES
    pc,               \* position of the controller
    deck_is_shuffled, \* Deck.is_shuffled
    pool,             \* cards left in the deck, per rank
    player,           \* BlackjackController.player
    dealer,           \* BlackjackController.dealer
    dealt,            \* draws done by the dealing loop
    output,           \* result of the last ask_next_move
    invalid,          \* invalid inputs typed at the current prompt
    asks,             \* calls of view.ask_next_move
    won,              \* calls of view.player_won
    lost,             \* calls of view.player_lost
    dealer_played,    \* dealer_plays was called
    action,           \* the input ask_next_move has just read
    screen            \* what display_state printed last

vars == << pc, deck_is_shuffled, pool, player, dealer, dealt, output, invalid,
           asks, won, lost, dealer_played, action, screen >>

\* inputs typed at the prompt
Inputs == { "H", "h", "S", "s", "x", "" }

\* str.upper()
upper(a) ==
    CASE a = "h" -> "H" [] a = "s" -> "S" [] a = "x" -> "X" [] OTHER -> a

(***************************************************************************)
(* BlackjackView                                                           *)
(***************************************************************************)
Digits == << "0", "1", "2", "3", "4", "5", "6", "7", "8", "9" >>

\* an integer as the f-string prints it, one string per character
str(n) ==
    IF n < 10 THEN << Digits[n + 1] >>
    ELSE << Digits[(n \div 10) + 1], Digits[(n % 10) + 1] >>

\* the text "??", one string per character
Masked == << "?", "?" >>

\* nothing printed yet
Blank ==
    [dealer_score |-> << >>, dealer_cards |-> << >>,
     player_score |-> << >>, player_cards |-> << >>]

\* the dealer's hand as display_state prints it
dealer_cards_hidden_first(cards, final) ==
    IF final THEN cards
    ELSE << "??" >> \o SubSeq(cards, 2, Len(cards))

dealer_cards_shown(cards, final) ==
    IF final THEN cards
    ELSE SubSeq(cards, 1, Len(cards) - 1) \o << "??" >>

\* the block display_state prints
display_state(state, final) ==
    [dealer_score |-> IF final THEN str(state.dealer.score) ELSE Masked,
     dealer_cards |-> dealer_cards_shown(state.dealer.cards, final),
     player_score |-> str(state.player.score),
     player_cards |-> state.player.cards]

(***************************************************************************)
(* Deck                                                                    *)
(***************************************************************************)
\* Deck(shuffle): a fresh pool, shuffled or not
DeckInit ==
    /\ deck_is_shuffled \in BOOLEAN
    /\ pool = [r \in DeckRanks |-> MaxCopies]

\* Deck.draw returning a card of rank r
draw(r) ==
    /\ r \in DeckRanks
    /\ pool[r] > 0
    /\ pool' = [pool EXCEPT ![r] = @ - 1]

(***************************************************************************)
(* BlackjackController                                                     *)
(***************************************************************************)
Init ==
    /\ DeckInit
    /\ pc = "init"
    /\ player = Hand
    /\ dealer = Hand
    /\ dealt = 0
    /\ output = "none"
    /\ invalid = 0
    /\ asks = 0
    /\ won = 0
    /\ lost = 0
    /\ dealer_played = FALSE
    /\ action = "none"
    /\ screen = Blank

\* BlackjackController.state
state == [dealer |-> dealer, player |-> player]

\* the test before deck.shuffle() in __init__
MustShuffleAlways == TRUE

MustShuffle == deck_is_shuffled = FALSE

\* Deck.shuffle, called by __init__
shuffle ==
    /\ pc = "shuffle"
    /\ deck_is_shuffled' = TRUE
    /\ pc' = "deal"
    /\ UNCHANGED << pool, player, dealer, dealt, output, invalid, asks, won, lost,
                    dealer_played, action, screen >>

\* __init__ up to the dealing loop: the test before deck.shuffle(), two empty hands
Construct ==
    /\ pc = "init"
    /\ pc' = IF MustShuffle THEN "shuffle" ELSE "deal"
    /\ player' = Hand
    /\ dealer' = Hand
    /\ UNCHANGED << deck_is_shuffled, pool, dealt, output, invalid, asks, won, lost,
                    dealer_played, action, screen >>

\* the dealing loop draws for the player first, then for the dealer
PlayerDrawsSecond == dealt % 2 = 1

PlayerDrawsNext == dealt % 2 = 0

\* one draw of the dealing loop: player, dealer, player, dealer
Deal ==
    /\ pc = "deal"
    /\ dealt < 4
    /\ \E r \in DeckRanks :
          /\ draw(r)
          /\ IF PlayerDrawsNext
             THEN player' = add_card(player, r) /\ dealer' = dealer
             ELSE dealer' = add_card(dealer, r) /\ player' = player
    /\ dealt' = dealt + 1
    /\ pc' = IF dealt' = 4 THEN "instant_win" ELSE "deal"
    /\ UNCHANGED << deck_is_shuffled, output, invalid, asks, won, lost, dealer_played,
                    action, screen >>

\* instant_win
InstantWin ==
    /\ pc = "instant_win"
    /\ IF player.score = 21
       THEN won' = won + 1 /\ screen' = display_state(state, TRUE)
       ELSE UNCHANGED << won, screen >>
    /\ pc' = "check_player"
    /\ UNCHANGED << deck_is_shuffled, pool, player, dealer, dealt, output, invalid,
                    asks, lost, dealer_played, action >>

\* the guard of player_plays in __init__
PlayerMayPlayLax == player.score <= 21

PlayerMayPlay == player.score < 21

CheckPlayer ==
    /\ pc = "check_player"
    /\ pc' = IF PlayerMayPlay THEN "player_loop" ELSE "check_dealer"
    /\ UNCHANGED << deck_is_shuffled, pool, player, dealer, dealt, output, invalid,
                    asks, won, lost, dealer_played, action, screen >>

\* the two exits at the head of the loop of player_plays
PlayerBustLax == player.score >= 21

PlayerBustOfDealer == dealer.score > 21

PlayerBust == player.score > 21

PlayerTwentyOneOfDealer == dealer.score = 21

PlayerTwentyOne == player.score = 21

\* head of the loop of player_plays, up to the call of ask_next_move
PlayerLoop ==
    /\ pc = "player_loop"
    /\ IF PlayerBust
       THEN /\ lost' = lost + 1
            /\ screen' = display_state(state, TRUE)
            /\ pc' = "check_dealer"
            /\ UNCHANGED << won, asks, invalid >>
       ELSE IF PlayerTwentyOne
       THEN /\ won' = won + 1
            /\ screen' = display_state(state, TRUE)
            /\ pc' = "check_dealer"
            /\ UNCHANGED << lost, asks, invalid >>
       ELSE /\ asks' = asks + 1
            /\ screen' = display_state(state, FALSE)
            /\ invalid' = 0
            /\ pc' = "ask"
            /\ UNCHANGED << won, lost >>
    /\ UNCHANGED << deck_is_shuffled, pool, player, dealer, dealt, output, dealer_played,
                    action >>

\* the test of ask_next_move on the input it read
IsCommandExact(a) == a \in { "H", "S" }

IsCommand(a) == upper(a) \in { "H", "S" }

\* BlackjackView.ask_next_move: one input() of its loop
AskNextMove ==
    /\ pc = "ask"
    /\ \E a \in Inputs :
          /\ IsCommand(a) \/ invalid < MaxInvalid
          /\ action' = a
    /\ pc' = "ask_check"
    /\ UNCHANGED << deck_is_shuffled, pool, player, dealer, dealt, output, invalid, asks,
                    won, lost, dealer_played, screen >>

\* BlackjackView.ask_next_move: return the command, or "Invalid command!" and again
AskCheck ==
    /\ pc = "ask_check"
    /\ IF IsCommand(action)
       THEN /\ output' = upper(action)
            /\ action' = "none"
            /\ invalid' = 0
            /\ pc' = "move"
       ELSE /\ invalid' = invalid + 1
            /\ pc' = "ask"
            /\ UNCHANGED << output, action >>
    /\ UNCHANGED << deck_is_shuffled, pool, player, dealer, dealt, asks, won, lost,
                    dealer_played, screen >>

\* output == "H": one card for the player, back to the head of the loop
Hit ==
    /\ pc = "move"
    /\ output = "H"
    /\ \E r \in DeckRanks :
          /\ draw(r)
          /\ player' = add_card(player, r)
    /\ pc' = "player_loop"
    /\ UNCHANGED << deck_is_shuffled, dealer, dealt, output, invalid, asks, won, lost,
                    dealer_played, action, screen >>

\* output == "S": leave the loop
Stand ==
    /\ pc = "move"
    /\ output = "S"
    /\ pc' = "check_dealer"
    /\ UNCHANGED << deck_is_shuffled, pool, player, dealer, dealt, output, invalid,
                    asks, won, lost, dealer_played, action, screen >>

\* the guard of dealer_plays in __init__
DealerMayPlayAlways == TRUE

DealerMayPlay == player.score < 21

CheckDealer ==
    /\ pc = "check_dealer"
    /\ IF DealerMayPlay
       THEN pc' = "dealer_loop" /\ dealer_played' = TRUE
       ELSE pc' = "done" /\ dealer_played' = dealer_played
    /\ UNCHANGED << deck_is_shuffled, pool, player, dealer, dealt, output, invalid,
                    asks, won, lost, action, screen >>

\* the condition of the while loop of dealer_plays
DealerDrawsTo21 == dealer.score < 21

DealerDrawsNot21 == dealer.score # 21

DealerDraws == dealer.score < 21 /\ dealer.score < player.score

\* one test of the while loop of dealer_plays, and its body
DealerLoop ==
    /\ pc = "dealer_loop"
    /\ IF DealerDraws
       THEN /\ \E r \in DeckRanks :
                  /\ draw(r)
                  /\ dealer' = add_card(dealer, r)
            /\ pc' = "dealer_loop"
       ELSE /\ pc' = "dealer_result"
            /\ UNCHANGED << pool, dealer >>
    /\ UNCHANGED << deck_is_shuffled, player, dealt, output, invalid, asks, won, lost,
                    dealer_played, action, screen >>

\* the two tests after the loop of dealer_plays
DealerBustLax == dealer.score >= 21

DealerBust == dealer.score > 21

DealerBeatsPlayerLax == 21 >= dealer.score /\ dealer.score >= player.score

DealerBeatsPlayer == 21 >= dealer.score /\ dealer.score > player.score

DealerResult ==
    /\ pc = "dealer_result"
    /\ won' = IF DealerBust THEN won + 1 ELSE won
    /\ lost' = IF DealerBeatsPlayer THEN lost + 1 ELSE lost
    /\ screen' = IF DealerBust \/ DealerBeatsPlayer THEN display_state(state, TRUE)
                 ELSE screen
    /\ pc' = "done"
    /\ UNCHANGED << deck_is_shuffled, pool, player, dealer, dealt, output, invalid,
                    asks, dealer_played, action >>

Next ==
    \/ Construct
    \/ shuffle
    \/ Deal
    \/ InstantWin
    \/ CheckPlayer
    \/ PlayerLoop
    \/ AskNextMove
    \/ AskCheck
    \/ Hit
    \/ Stand
    \/ CheckDealer
    \/ DealerLoop
    \/ DealerResult

Spec == Init /\ [][Next]_vars

(***************************************************************************)
(* Hand.add_card on its own                                                *)
(***************************************************************************)
HandInit ==
    /\ pc = "hand"
    /\ deck_is_shuffled = TRUE
    /\ pool = [r \in DeckRanks |-> MaxCopies]
    /\ player = Hand
    /\ dealer = Hand
    /\ dealt = 0
    /\ output = "none"
    /\ invalid = 0
    /\ asks = 0
    /\ won = 0
    /\ lost = 0
    /\ dealer_played = FALSE
    /\ action = "none"
    /\ screen = Blank

HandAddCard ==
    /\ pc = "hand"
    /\ Len(player.cards) < MaxHandLen
    /\ \E card \in AllRanks : player' = add_card(player, card)
    /\ UNCHANGED << pc, deck_is_shuffled, pool, dealer, dealt, output, invalid,
                    asks, won, lost, dealer_played, action, screen >>

HandNext == HandAddCard

HandSpec == HandInit /\ [][HandNext]_vars

(***************************************************************************)
(* Quantities the properties speak about                                   *)
(***************************************************************************)
\* blackjack value of a non-ace rank: 2-10 at face value, court cards 10
BlackjackValue ==
    [r \in AllRanks \ { "ACE" } |->
        CASE r = "2" -> 2 [] r = "3" -> 3 [] r = "4" -> 4 [] r = "5" -> 5
          [] r = "6" -> 6 [] r = "7" -> 7 [] r = "8" -> 8 [] r = "9" -> 9
          [] OTHER -> 10]

\* sum of the blackjack values of the non-ace cards among the first n
RECURSIVE SumNonAce(_, _)
SumNonAce(cards, n) ==
    IF n = 0 THEN 0
    ELSE SumNonAce(cards, n - 1)
         + (IF cards[n] = "ACE" THEN 0 ELSE BlackjackValue[cards[n]])

NumAces(cards) == Cardinality({ k \in 1..Len(cards) : cards[k] = "ACE" })

\* the total with every ace counted as 11
AllElevens(cards) == SumNonAce(cards, Len(cards)) + 11 * NumAces(cards)

IsPrefix(s, t) == Len(s) <= Len(t) /\ SubSeq(t, 1, Len(s)) = s

FiveFives == << "5", "5", "5", "5", "5" >>

\* the game is over: __init__ has returned
GameOver == pc = "done"

\* the deal is complete and instant_win has run
AfterInstantWin == pc \notin { "init", "deal", "instant_win", "hand" }

(***************************************************************************)
(* C1: a dealt player hand of exactly 21 notifies player_won once and the  *)
(* game ends at once: no loss is notified, ask_next_move is never called   *)
(* and the dealer keeps its two cards, whatever the dealer's score is.     *)
(***************************************************************************)
C1_InstantWinEndsGame ==
    (AfterInstantWin /\ Len(player.cards) = 2 /\ player.score = 21)
    => /\ won = 1
       /\ lost = 0
       /\ asks = 0
       /\ Len(dealer.cards) = 2
       /\ ~dealer_played
       /\ pc \in { "check_player", "check_dealer", "done" }

C1_Witness ==
    /\ GameOver
    /\ Len(player.cards) = 2
    /\ player.score = 21
    /\ dealer.score = 21
    /\ won = 1

(***************************************************************************)
(* C2: at every entry of the player loop a score above 21 notifies         *)
(* player_lost and a score of exactly 21 notifies player_won, both ending  *)
(* the game with no further prompt and no dealer draw; ask_next_move is    *)
(* called only with a score below 21, and a hit appends exactly one card   *)
(* to the player's hand, none to the dealer's, and re-enters the loop.     *)
(***************************************************************************)
C2_LoopEntry ==
    pc = "player_loop" =>
       /\ player.score > 21 =>
             /\ lost' = lost + 1 /\ won' = won /\ asks' = asks
             /\ pc' = "check_dealer"
       /\ player.score = 21 =>
             /\ won' = won + 1 /\ lost' = lost /\ asks' = asks
             /\ pc' = "check_dealer"
       /\ player.score < 21 =>
             /\ asks' = asks + 1 /\ won' = won /\ lost' = lost
             /\ pc' = "ask"

C2_PromptOnlyBelow21 ==
    asks' # asks => (pc = "player_loop" /\ player.score < 21)

C2_HitDrawsOne ==
    (pc = "move" /\ output = "H") =>
       /\ Len(player.cards') = Len(player.cards) + 1
       /\ IsPrefix(player.cards, player.cards')
       /\ dealer' = dealer
       /\ pc' = "player_loop"

C2_EndedByScore ==
    (pc \in { "check_dealer", "done" } /\ player.score >= 21) =>
       /\ won + lost = 1
       /\ player.score > 21 => lost = 1
       /\ player.score = 21 => won = 1
       /\ Len(dealer.cards) = 2
       /\ ~dealer_played

C2_PlayerTurn ==
    /\ [][C2_LoopEntry /\ C2_PromptOnlyBelow21 /\ C2_HitDrawsOne]_vars
    /\ [](C2_EndedByScore /\ (pc = "ask" => player.score < 21))
    /\ [][(pc \in { "check_dealer", "done" } /\ player.score >= 21)
            => (asks' = asks /\ dealer' = dealer /\ player' = player
                /\ won' = won /\ lost' = lost)]_vars

C2_Witness ==
    /\ GameOver
    /\ player.score > 21
    /\ lost = 1
    /\ asks >= 1
    /\ output = "H"

(***************************************************************************)
(* C3: a stand leaves the player loop without any notification and the     *)
(* dealer turn follows; the dealer turn is entered only after a stand,     *)
(* with the player's score below 21 and nothing notified so far.           *)
(***************************************************************************)
C3_StandLeadsToDealer ==
    /\ (pc = "move" /\ output = "S") =>
          (pc' = "check_dealer" /\ won' = won /\ lost' = lost /\ player' = player)
    /\ (pc = "check_dealer" /\ output = "S") =>
          (pc' = "dealer_loop" /\ dealer_played' /\ won' = won /\ lost' = lost)

C3_DealerOnlyAfterStand ==
    /\ dealer_played => (output = "S" /\ player.score < 21)
    /\ pc \in { "dealer_loop", "dealer_result" } =>
          (dealer_played /\ won = 0 /\ lost = 0)
    /\ Len(dealer.cards) > 2 => dealer_played

C3_StandAndDealerTurn ==
    [][C3_StandLeadsToDealer]_vars /\ []C3_DealerOnlyAfterStand

C3_Witness ==
    /\ pc = "dealer_loop"
    /\ output = "S"
    /\ asks >= 2
    /\ Len(player.cards) >= 3

(***************************************************************************)
(* C4: in the dealer turn the dealer draws exactly when its score is below *)
(* 21 and below the player's score; otherwise the loop ends, and from then *)
(* on the dealer's score is never below the player's.                      *)
(***************************************************************************)
C4_DrawExactlyWhen ==
    pc = "dealer_loop" =>
       IF dealer.score < 21 /\ dealer.score < player.score
       THEN /\ Len(dealer.cards') = Len(dealer.cards) + 1
            /\ IsPrefix(dealer.cards, dealer.cards')
            /\ pc' = "dealer_loop"
       ELSE /\ dealer' = dealer
            /\ pc' = "dealer_result"

C4_NoOtherDraw ==
    (dealer_played /\ dealer' # dealer) =>
       (pc = "dealer_loop" /\ dealer.score < 21 /\ dealer.score < player.score)

C4_LoopEnd ==
    (pc = "dealer_result" \/ (GameOver /\ dealer_played)) =>
       /\ dealer.score >= player.score
       /\ Len(dealer.cards) > 2 =>
             LET before == NewScore(SubSeq(dealer.cards, 1, Len(dealer.cards) - 1))
             IN  before < 21 /\ before < player.score

C4_DealerLoop ==
    [][C4_DrawExactlyWhen /\ C4_NoOtherDraw]_vars /\ []C4_LoopEnd

C4_Witness ==
    /\ pc = "dealer_result"
    /\ Len(dealer.cards) >= 4
    /\ dealer.score < 21
    /\ dealer.score = player.score

(***************************************************************************)
(* C5: after the dealer's loop a dealer score above 21 notifies            *)
(* player_won, a dealer score above the player's and at most 21 notifies   *)
(* player_lost, and never both.                                            *)
(***************************************************************************)
C5_DealerOutcome ==
    (GameOver /\ dealer_played) =>
       /\ dealer.score > 21 => (won = 1 /\ lost = 0)
       /\ (dealer.score > player.score /\ dealer.score <= 21) => (lost = 1 /\ won = 0)
       /\ won + lost <= 1

C5_Witness ==
    /\ GameOver
    /\ dealer_played
    /\ dealer.score = 21
    /\ Len(dealer.cards) >= 3
    /\ lost = 1
    /\ won = 0

(***************************************************************************)
(* C6: a completed game has notified nothing exactly when the dealer turn  *)
(* ended with the dealer's score equal to the player's, at most 21; every  *)
(* other completed game has notified an outcome.                           *)
(***************************************************************************)
C6_SilentExactlyOnPush ==
    GameOver =>
       ((won = 0 /\ lost = 0)
          <=> (dealer_played /\ dealer.score = player.score /\ dealer.score <= 21))

\* player 17, dealer 10 and 6 drawing an ace
C6_Witness ==
    /\ GameOver
    /\ player.score = 17
    /\ dealer.cards = << "10", "6", "ACE" >>
    /\ dealer.score = 17
    /\ won = 0
    /\ lost = 0

(***************************************************************************)
(* C7: as claimed, one recomputation reduces at most one ace, so the score *)
(* is never lower than the all-elevens total minus 10.                     *)
(***************************************************************************)
C7_AtMostOneAceReduced ==
    player.score >= AllElevens(player.cards) - 10

(***************************************************************************)
(* C7: one recomputation reduces the aces one after another, each only     *)
(* while the total is still above 21: the score is the all-elevens total   *)
(* minus 10 per reduced ace, where the number of reduced aces is the least *)
(* that brings the total to 21 or below, or every ace if none does.        *)
(***************************************************************************)
C7_AcesReducedWhileAbove21 ==
    LET t == AllElevens(player.cards)
        n == NumAces(player.cards)
        s == player.score
    IN  /\ s >= t - 10 * n
        /\ \E j \in 0..n :
              /\ s = t - 10 * j
              /\ j > 0 => s + 10 > 21
              /\ j < n => s <= 21

C7_Witness ==
    /\ pc = "hand"
    /\ NumAces(player.cards) >= 2
    /\ player.score = AllElevens(player.cards) - 20
    /\ player.score <= 21

(***************************************************************************)
(* C8: a hand without aces scores the sum of the blackjack values of its   *)
(* cards after every add_card, also above 21.                              *)
(***************************************************************************)
C8_NonAceSum ==
    ~HasAces(player.cards) =>
       player.score = SumNonAce(player.cards, Len(player.cards))

C8_Witness ==
    /\ pc = "hand"
    /\ ~HasAces(player.cards)
    /\ \E k \in 1..Len(player.cards) : player.cards[k] \in FaceRanks
    /\ \E k \in 1..Len(player.cards) : player.cards[k] = "10"
    /\ player.score > 21

(***************************************************************************)
(* C9: a hand with exactly one ace, anywhere in the draw order, and other  *)
(* cards summing to s scores s+11 when that is at most 21, else s+1.       *)
(***************************************************************************)
C9_SingleAce ==
    NumAces(player.cards) = 1 =>
       LET s == SumNonAce(player.cards, Len(player.cards))
       IN  player.score = IF s + 11 <= 21 THEN s + 11 ELSE s + 1

C9_Witness ==
    /\ pc = "hand"
    /\ NumAces(player.cards) = 1
    /\ Len(player.cards) >= 3
    /\ player.cards[1] # "ACE"
    /\ player.cards[Len(player.cards)] # "ACE"
    /\ SumNonAce(player.cards, Len(player.cards)) + 11 > 21

(***************************************************************************)
(* C10: as claimed, a game in which the player holds five fives never      *)
(* called ask_next_move.                                                   *)
(***************************************************************************)
C10_FiveFivesNeverPrompted ==
    player.cards = FiveFives => asks = 0

(***************************************************************************)
(* C10: a player hand of five fives scores 25 and the next loop entry      *)
(* notifies player_lost, with no prompt after the hit that drew the fifth  *)
(* five and no dealer turn; ask_next_move was called exactly three times   *)
(* before, once for each hit that followed the two dealt cards.            *)
(***************************************************************************)
C10_FiveFivesState ==
    player.cards = FiveFives =>
       /\ player.score = 25
       /\ asks = 3
       /\ won = 0
       /\ ~dealer_played
       /\ Len(dealer.cards) = 2
       /\ \/ pc = "player_loop" /\ lost = 0
          \/ pc \in { "check_dealer", "done" } /\ lost = 1

C10_FiveFivesStep ==
    (player.cards = FiveFives /\ pc = "player_loop") =>
       (lost' = lost + 1 /\ asks' = asks /\ pc' = "check_dealer" /\ player' = player)

C10_FiveFivesLose ==
    []C10_FiveFivesState /\ [][C10_FiveFivesStep]_vars

C10_Witness ==
    /\ GameOver
    /\ player.cards = FiveFives
    /\ lost = 1

(***************************************************************************)
(* Further quantities the properties speak about                           *)
(***************************************************************************)
NumDeckRanks == Cardinality(DeckRanks)

\* cards left in the pool, over the first k ranks
RECURSIVE PoolLeft(_)
PoolLeft(k) == IF k = 0 THEN 0 ELSE PoolLeft(k - 1) + pool[RankOrder[k]]

\* calls of Deck.draw so far
Drawn == NumDeckRanks * MaxCopies - PoolLeft(NumDeckRanks)

\* copies of rank r in a card list
Count(cards, r) == Cardinality({ k \in 1..Len(cards) : cards[k] = r })

\* a standard pool: four suits of every rank
StandardPool == Len(RankOrder) * 4

\* the controller is inside ask_next_move
Prompting == pc \in { "ask", "ask_check" }

\* the standard blackjack value: aces as 1, one of them as 11 when that fits
StandardValue(cards) ==
    LET h == SumNonAce(cards, Len(cards)) + NumAces(cards)
    IN  IF NumAces(cards) > 0 /\ h + 10 <= 21 THEN h + 10 ELSE h

\* the card list with the cards at k and k+1 exchanged
Swap(cards, k) ==
    [j \in 1..Len(cards) |->
        IF j = k THEN cards[k + 1] ELSE IF j = k + 1 THEN cards[k] ELSE cards[j]]

\* the game as it would be with card c as the dealer's last card
WithDealerLast(c) ==
    LET cards == SubSeq(dealer.cards, 1, Len(dealer.cards) - 1) \o << c >>
    IN  [dealer |-> [cards |-> cards, score |-> NewScore(cards)], player |-> player]

(***************************************************************************)
(* C11: dealing draws exactly four cards, for the player, the dealer, the  *)
(* player, the dealer, so both hands hold exactly two cards at the         *)
(* instant-win check and at the first prompt, and at least the two dealt   *)
(* cards at every prompt and notification.                                 *)
(***************************************************************************)
C11_DealStep ==
    pc = "deal" =>
       /\ Drawn' = Drawn + 1
       /\ IF dealt \in { 0, 2 }
          THEN Len(player.cards') = Len(player.cards) + 1 /\ dealer' = dealer
          ELSE Len(dealer.cards') = Len(dealer.cards) + 1 /\ player' = player

C11_FirstUse ==
    (asks + won + lost = 0 /\ asks' + won' + lost' > 0) =>
       (Len(player.cards) = 2 /\ Len(dealer.cards) = 2 /\ Drawn = 4)

C11_DealState ==
    /\ pc = "deal" =>
          /\ dealt < 4
          /\ Drawn = dealt
          /\ Len(player.cards) = (dealt + 1) \div 2
          /\ Len(dealer.cards) = dealt \div 2
    /\ pc = "instant_win" =>
          (Len(player.cards) = 2 /\ Len(dealer.cards) = 2 /\ Drawn = 4)
    /\ pc \in { "init", "shuffle", "deal", "instant_win" } => asks + won + lost = 0
    /\ asks + won + lost > 0 => (Len(player.cards) >= 2 /\ Len(dealer.cards) >= 2)

C11_Dealing ==
    [][C11_DealStep /\ C11_FirstUse]_vars /\ []C11_DealState

C11_Witness ==
    /\ pc = "instant_win"
    /\ player.cards = << "ACE", "10" >>
    /\ dealer.cards = << "5", "6" >>

(***************************************************************************)
(* C12: no draw ever meets an exhausted pool and the cards drawn in a game *)
(* stay within a standard pool of 52: a hand never holds more cards than   *)
(* its score, and after the deal a hand draws only with a score below 21.  *)
(***************************************************************************)
C12_DrawPending ==
    \/ pc = "deal"
    \/ pc = "move" /\ output = "H"
    \/ pc = "dealer_loop" /\ dealer.score < 21 /\ dealer.score < player.score

C12_PoolSuffices ==
    /\ C12_DrawPending => PoolLeft(NumDeckRanks) > 0
    /\ Drawn <= StandardPool
    /\ Len(player.cards) <= player.score
    /\ Len(dealer.cards) <= dealer.score
    /\ Len(player.cards) <= 21
    /\ Len(dealer.cards) <= 21

C12_DrawBelow21 ==
    (pc # "deal" /\ Drawn' # Drawn) =>
       /\ Drawn' = Drawn + 1
       /\ player' # player => player.score < 21
       /\ dealer' # dealer => dealer.score < 21

C13_AppendOnly ==
    pc # "init" =>
       /\ IsPrefix(player.cards, player.cards')
       /\ IsPrefix(dealer.cards, dealer.cards')
       /\ Len(player.cards') + Len(dealer.cards')
             <= Len(player.cards) + Len(dealer.cards) + 1

C13_DrawnInOneHand ==
    /\ Drawn = Len(player.cards) + Len(dealer.cards)
    /\ \A r \in DeckRanks :
          Count(player.cards, r) + Count(dealer.cards, r) = MaxCopies - pool[r]

C13_Hands ==
    [][C13_AppendOnly]_vars /\ []C13_DrawnInOneHand

C13_Witness ==
    /\ GameOver
    /\ Len(player.cards) >= 3
    /\ Len(dealer.cards) >= 3
    /\ \E r \in DeckRanks : Count(player.cards, r) > 0 /\ Count(dealer.cards, r) > 0

(***************************************************************************)
(* C14: the controller shuffles a deck handed over unshuffled before it    *)
(* deals, does not shuffle a deck already marked shuffled, and no card is  *)
(* drawn while is_shuffled is false.                                       *)
(***************************************************************************)
C14_ShuffleStep ==
    /\ pc = "init" => pc' = IF deck_is_shuffled THEN "deal" ELSE "shuffle"
    /\ pc = "shuffle" => (deck_is_shuffled' /\ pc' = "deal")
    /\ deck_is_shuffled => (deck_is_shuffled' /\ pc' # "shuffle")

C14_ShuffledBeforeDraw ==
    /\ pc = "shuffle" => (~deck_is_shuffled /\ Drawn = 0)
    /\ pc \notin { "init", "shuffle" } => deck_is_shuffled
    /\ Drawn > 0 => deck_is_shuffled

C14_Shuffle ==
    [][C14_ShuffleStep]_vars /\ []C14_ShuffledBeforeDraw

C14_Witness ==
    /\ pc = "deal"
    /\ Drawn = 1
    /\ deck_is_shuffled

(***************************************************************************)
(* C15: while the player is prompted the screen shows "??" for the         *)
(* dealer's score and for the dealer's last card, and is the same whatever *)
(* the dealer's last card is; the dealer's score and full hand are on the  *)
(* screen only once player_won or player_lost has displayed them.          *)
(***************************************************************************)
C15_DealerMasked ==
    /\ Prompting =>
          /\ screen.dealer_score = Masked
          /\ Len(screen.dealer_cards) = Len(dealer.cards)
          /\ screen.dealer_cards[Len(dealer.cards)] = "??"
          /\ \A k \in 1..Len(dealer.cards) - 1 : screen.dealer_cards[k] = dealer.cards[k]
          /\ \A c \in AllRanks : display_state(WithDealerLast(c), FALSE) = screen
    /\ won + lost = 0 =>
          \/ screen = Blank
          \/ /\ screen.dealer_score = Masked
             /\ screen.dealer_cards[Len(screen.dealer_cards)] = "??"
    /\ (screen # Blank /\ screen.dealer_score # Masked) =>
          /\ won + lost = 1
          /\ screen.dealer_score = str(dealer.score)
          /\ screen.dealer_cards = dealer.cards

C15_Witness ==
    /\ pc = "ask"
    /\ asks >= 2
    /\ dealer.score = 21
    /\ screen.dealer_score = Masked

(***************************************************************************)
(* C16: ask_next_move returns "H" for "H" or "h" and "S" for "S" or "s";   *)
(* any other input is answered by prompting again, any number of times in  *)
(* a row, with no card drawn, both hands unchanged and nothing notified.   *)
(***************************************************************************)
C16_CheckStep ==
    pc = "ask_check" =>
       IF action \in { "H", "h" } THEN output' = "H" /\ pc' = "move"
       ELSE IF action \in { "S", "s" } THEN output' = "S" /\ pc' = "move"
       ELSE pc' = "ask" /\ output' = output /\ invalid' = invalid + 1

C16_PromptStep ==
    Prompting =>
       /\ pc' \in { "ask", "ask_check", "move" }
       /\ player' = player
       /\ dealer' = dealer
       /\ pool' = pool
       /\ won' = won /\ lost' = lost /\ asks' = asks

C16_Output ==
    /\ output \in { "none", "H", "S" }
    /\ pc = "move" => output \in { "H", "S" }

C17_Frozen ==
    won + lost >= 1 =>
       /\ won' = won /\ lost' = lost
       /\ asks' = asks
       /\ player' = player /\ dealer' = dealer /\ pool' = pool
       /\ ~Prompting'

C17_OneOutcome ==
    [](won + lost <= 1 /\ (won + lost = 1 => ~Prompting)) /\ [][C17_Frozen]_vars

C17_Witness ==
    /\ GameOver
    /\ dealer_played
    /\ won = 1
    /\ lost = 0

(***************************************************************************)
(* C18: after every add_card the score is the standard blackjack value of  *)
(* the hand, and so the same when two neighbouring cards change places.    *)
(***************************************************************************)
C18_StandardValue ==
    /\ player.score = StandardValue(player.cards)
    /\ \A k \in 1..Len(player.cards) - 1 :
          NewScore(Swap(player.cards, k)) = player.score

C18_Witness ==
    /\ pc = "hand"
    /\ player.cards = << "ACE", "KING", "ACE" >>
    /\ player.score = 12

(***************************************************************************)
(* C19: while ask_next_move runs the player's score is below 21, the       *)
(* player holds at least two cards, the dealer exactly two and nothing is  *)
(* notified; the dealer holds a third card only after a stand, and once    *)
(* the dealer turn has begun the controller is past the player's turn.     *)
(***************************************************************************)
C19_PromptState ==
    /\ Prompting =>
          /\ player.score < 21
          /\ Len(player.cards) >= 2
          /\ Len(dealer.cards) = 2
          /\ won = 0 /\ lost = 0
          /\ ~dealer_played
          /\ asks >= 1
    /\ Len(dealer.cards) > 2 => output = "S"
    /\ dealer_played => pc \in { "dealer_loop", "dealer_result", "done" }

C19_Witness ==
    /\ pc = "ask"
    /\ Len(player.cards) >= 4
    /\ asks = 3

(***************************************************************************)
(* C20: every game reaches its end after finitely many draws, given a      *)
(* command at every prompt: no state before the end is stuck, and every    *)
(* step raises a bounded measure made of the number of cards drawn, the    *)
(* controller's position and the invalid inputs at the current prompt. The *)
(* cards are bounded because a hand draws only with a score below 21 and   *)
(* its score is never below the number of its cards, although a card can   *)
(* lower the score.                                                        *)
(***************************************************************************)
\* the order of the controller's positions
Position ==
    CASE pc = "init" -> 0 [] pc = "shuffle" -> 1 [] pc = "deal" -> 2
      [] pc = "instant_win" -> 3 [] pc = "check_player" -> 4
      [] pc = "player_loop" -> 5 [] pc = "ask" -> 6 [] pc = "ask_check" -> 6
      [] pc = "move" -> 7 [] pc = "check_dealer" -> 8 [] pc = "dealer_loop" -> 9
      [] pc = "dealer_result" -> 10 [] OTHER -> 11

\* steps one prompt can take, plus one
PromptSpan == 2 * MaxInvalid + 3

Measure ==
    (Len(player.cards) + Len(dealer.cards)) * 12 * PromptSpan
    + Position * PromptSpan
    + (IF Prompting THEN 2 * invalid + (IF pc = "ask_check" THEN 1 ELSE 0) ELSE 0)

C20_Progress ==
    /\ Measure' > Measure
    /\ player' # player => player.score < 21
    /\ dealer' # dealer => dealer.score < 21

C20_Bounded ==
    /\ ~GameOver => ENABLED Next
    /\ Len(player.cards) <= IF player.score < 21 THEN player.score ELSE 21
    /\ Len(dealer.cards) <= IF dealer.score < 21 THEN dealer.score ELSE 21
    /\ Measure <= (42 * 12 + 11) * PromptSpan

C20_Terminates ==
    [][C20_Progress]_vars /\ []C20_Bounded

C20_Witness ==
    /\ GameOver
    /\ Len(player.cards) >= 3
    /\ player.score
          < NewScore(SubSeq(player.cards, 1, Len(player.cards) - 1))

=============================================================================
